---- MODULE Spec2Model ----
(***************************************************************************)
(* Bank-Statement-Analyzer: the HTTP handler (invoice_handler.py) and the  *)
(* queue worker (lambda2-worker.py) that parse statement text, categorise  *)
(* and aggregate the transactions, and persist analyses in the             *)
(* user_analyses table.                                                    *)
(*                                                                         *)
(* Text is modelled by TLA+ strings (Len, SubSeq and \o act on them as on  *)
(* sequences of characters).  Python floats are modelled by a binary       *)
(* floating-point format with round-to-nearest-even whose significand is   *)
(* Precision bits wide instead of 53.                                      *)
(***************************************************************************)
EXTENDS Integers, Sequences, FiniteSets, TLC

\* ------------------------------------------------------------------------
\* Bounds of the model
\* ------------------------------------------------------------------------

\* Significand width of the modelled floats (CPython: 53).
Precision == 12

\* ------------------------------------------------------------------------
\* Characters and strings (str methods used by both lambdas)
\* ------------------------------------------------------------------------

Char(s, i) == SubSeq(s, i, i)

DigitChars == "0123456789"
UpperChars == "ABCDEFGHIJKLMNOPQRSTUVWXYZ"
LowerChars == "abcdefghijklmnopqrstuvwxyz"

CharSet(s) == {Char(s, i) : i \in 1..Len(s)}

Digits == CharSet(DigitChars)
Uppers == CharSet(UpperChars)
Lowers == CharSet(LowerChars)

Alphas == Lowers \cup Uppers
\* \s of re, and the characters str.strip() removes, that a line can hold
Spaces == {" ", "\t"}
\* \w of re
Words == Alphas \cup Digits \cup {"_"}

IsDigit(c) == c \in Digits
IsSpace(c) == c \in Spaces
IsWord(c) == c \in Words

IndexIn(s, c) == CHOOSE i \in 1..Len(s) : Char(s, i) = c

DigitVal(c) == IndexIn(DigitChars, c) - 1

LowerChar(c) == IF c \in Uppers THEN Char(LowerChars, IndexIn(UpperChars, c)) ELSE c

\* str.lower()
RECURSIVE Lower(_)
Lower(s) ==
    IF Len(s) <= 1 THEN LowerChar(s)
    ELSE Lower(SubSeq(s, 1, Len(s) \div 2)) \o Lower(SubSeq(s, Len(s) \div 2 + 1, Len(s)))

UpperChar(c) == IF c \in Lowers THEN Char(UpperChars, IndexIn(LowerChars, c)) ELSE c

\* str.upper()
RECURSIVE Upper(_)
Upper(s) ==
    IF Len(s) <= 1 THEN UpperChar(s)
    ELSE Upper(SubSeq(s, 1, Len(s) \div 2)) \o Upper(SubSeq(s, Len(s) \div 2 + 1, Len(s)))

\* str.startswith / the `in` operator on strings
StartsWithAt(s, i, p) == i + Len(p) - 1 <= Len(s) /\ SubSeq(s, i, i + Len(p) - 1) = p

Contains(s, p) == \E i \in 1..(Len(s) - Len(p) + 1) : StartsWithAt(s, i, p)

\* str.strip()
RECURSIVE LStrip(_)
LStrip(s) ==
    IF s # "" /\ IsSpace(Char(s, 1)) THEN LStrip(SubSeq(s, 2, Len(s))) ELSE s

RECURSIVE RStrip(_)
RStrip(s) ==
    IF s # "" /\ IsSpace(Char(s, Len(s))) THEN RStrip(SubSeq(s, 1, Len(s) - 1)) ELSE s

Strip(s) == RStrip(LStrip(s))

\* str.split(sep) for a one-character separator: the fields, in order
RECURSIVE SplitOn(_, _)
SplitOn(s, sep) ==
    IF ~Contains(s, sep) THEN <<s>>
    ELSE LET i == CHOOSE k \in 1..Len(s) :
                      Char(s, k) = sep /\ \A j \in 1..(k - 1) : Char(s, j) # sep
         IN  <<SubSeq(s, 1, i - 1)>> \o SplitOn(SubSeq(s, i + 1, Len(s)), sep)

\* str.split(): the maximal runs of non-whitespace characters
RECURSIVE SplitWords(_)
SplitWords(s) ==
    LET t == LStrip(s) IN
    IF t = "" THEN <<>>
    ELSE LET n == CHOOSE k \in 1..Len(t) :
                      /\ \A j \in 1..k : ~IsSpace(Char(t, j))
                      /\ (k = Len(t) \/ IsSpace(Char(t, k + 1)))
         IN  <<SubSeq(t, 1, n)>> \o SplitWords(SubSeq(t, n + 1, Len(t)))

\* str(n) of a natural number
RECURSIVE NatStr(_)
NatStr(n) ==
    IF n < 10 THEN Char(DigitChars, n + 1)
    ELSE NatStr(n \div 10) \o Char(DigitChars, (n % 10) + 1)

\* int(s) of a non-empty string of digits
RECURSIVE NatVal(_)
NatVal(s) ==
    IF s = "" THEN 0
    ELSE 10 * NatVal(SubSeq(s, 1, Len(s) - 1)) + DigitVal(Char(s, Len(s)))

AllDigits(s) == s # "" /\ \A i \in 1..Len(s) : IsDigit(Char(s, i))

Min(S) == CHOOSE x \in S : \A y \in S : x <= y
Max(S) == CHOOSE x \in S : \A y \in S : x >= y

\* the least element of a set of positions; 0 when there is none
First(S) == IF S = {} THEN 0 ELSE Min(S)

\* s[:n]
Truncate(s, n) == SubSeq(s, 1, Min({n, Len(s)}))

\* s * n
RECURSIVE Repeat(_, _)
Repeat(s, n) ==
    IF n = 0 THEN "" ELSE IF n = 1 THEN s
    ELSE Repeat(s, n \div 2) \o Repeat(s, n - n \div 2)

\* ------------------------------------------------------------------------
\* Floats: a value is a whole number of units of 2^-FracBits that has at
\* most Precision significant bits; every operation rounds its exact result
\* to the nearest such value, ties to even.
\* ------------------------------------------------------------------------

FracBits == Precision + 6
One == 2 ^ FracBits

RoundHalfEven(num, den) ==
    LET q == num \div den
        r == num % den
    IN  IF 2 * r < den THEN q
        ELSE IF 2 * r > den THEN q + 1
        ELSE IF q % 2 = 0 THEN q ELSE q + 1

RECURSIVE Scale(_, _)
Scale(num, den) == IF num < den * (2 ^ Precision) THEN 1 ELSE 2 * Scale(num, den * 2)

\* the float nearest to num/den units
RoundToFloat(num, den) ==
    IF num = 0 THEN 0
    ELSE LET s == Scale(num, den) IN RoundHalfEven(num, den * s) * s

\* the float nearest to the rational n/d
FloatOf(n, d) == RoundToFloat(n * One, d)

\* a + b on floats
FAdd(a, b) == RoundToFloat(a + b, 1)

\* the whole number of cents nearest to x
NearestCent(x) == RoundHalfEven(x * 100, One)

\* round(x, 2)
Round2(x) == FloatOf(NearestCent(x), 100)

\* str(x) of a float that is a result of round(., 2): "45.2", "50.0", "8.51"
FloatStr(x) ==
    LET c == NearestCent(x)
        f == c % 100
    IN  NatStr(c \div 100) \o "." \o
        (IF f % 10 = 0 THEN NatStr(f \div 10) ELSE NatStr(f \div 10) \o NatStr(f % 10))

\* ------------------------------------------------------------------------
\* Categorizer of the handler
\* ------------------------------------------------------------------------

\* the keyword table, in the order the dict literal declares it
categories == <<
    [name |-> "Food & Groceries",
     keywords |-> <<"tesco", "lidl", "supervalu", "dunnes", "eurasia", "supermarket",
                    "spar", "centra", "aldi", "marks & spencer", "m&s food">>],
    [name |-> "Transport",
     keywords |-> <<"transport for ireland", "tfi", "leap", "bus", "luas", "dart",
                    "nta", "dublin bus", "irish rail", "taxi", "uber", "lyft", "bolt">>],
    [name |-> "Shopping",
     keywords |-> <<"penneys", "primark", "mr price", "euro giant", "euro store",
                    "zara", "h&m", "next", "new look", "tk maxx", "dunnes stores">>],
    [name |-> "Subscriptions",
     keywords |-> <<"netflix", "spotify", "apple.com", "apple music", "subscription",
                    "amazon prime", "disney+", "youtube premium", "48months">>],
    [name |-> "Snacks & Dining",
     keywords |-> <<"five guys", "burger king", "mcdonalds", "mcdonald's", "kfc",
                    "supermacs", "subway", "starbucks", "costa", "insomnia",
                    "cafe", "bakehouse", "restaurant", "pizza", "nandos">>],
    [name |-> "Bills & Utilities",
     keywords |-> <<"rent", "electric", "electricity", "gas", "eir", "vodafone",
                    "three", "sky", "virgin media", "utility", "sse airtricity">>],
    [name |-> "Health & Pharmacy",
     keywords |-> <<"pharmacy", "chemist", "boots", "mccabes", "lloyds pharmacy",
                    "hospital", "doctor", "dentist", "medical">>] >>

\* any(keyword in text for keyword in keywords)
AnyKeyword(text, keywords) ==
    \E k \in 1..Len(keywords) : Contains(text, keywords[k])

\* a categorizer that lets the last matching category win
categorize_expense_last(description) ==
    IF description = "" THEN "Other"
    ELSE LET text == Lower(description)
             hits == {i \in 1..Len(categories) : AnyKeyword(text, categories[i].keywords)}
         IN  IF hits = {} THEN "Other" ELSE categories[Max(hits)].name

categorize_expense(description) ==
    IF description = "" THEN "Other"
    ELSE LET text == Lower(description)
             hits == {i \in 1..Len(categories) : AnyKeyword(text, categories[i].keywords)}
         IN  IF hits = {} THEN "Other" ELSE categories[Min(hits)].name

\* ------------------------------------------------------------------------
\* Categorizer of the worker
\* ------------------------------------------------------------------------

AnyWord(text, words) == \E w \in words : Contains(text, w)

categorize(description) ==
    LET desc_lower == Lower(description) IN
    IF AnyWord(desc_lower, {"amazon", "shop", "store", "retail"}) THEN "Shopping"
    ELSE IF AnyWord(desc_lower, {"restaurant", "cafe", "food", "uber eats"}) THEN "Food & Dining"
    ELSE IF AnyWord(desc_lower, {"netflix", "spotify", "subscription"}) THEN "Entertainment"
    ELSE IF AnyWord(desc_lower, {"transport", "uber", "taxi", "bus"}) THEN "Transport"
    ELSE IF AnyWord(desc_lower, {"electricity", "gas", "water", "utility"}) THEN "Utilities"
    ELSE "Other"

\* ------------------------------------------------------------------------
\* Numbers and dates in text (float(), datetime.strptime, strftime)
\* ------------------------------------------------------------------------

NoFloat == [ok |-> FALSE, neg |-> FALSE, mag |-> 0]

Fraction(parts) == IF Len(parts) = 2 THEN parts[2] ELSE ""

\* the digits around the point, as a float
FloatOfParts(neg, parts) ==
    IF /\ Len(parts) <= 2
       /\ \A k \in 1..Len(parts) : parts[k] = "" \/ AllDigits(parts[k])
       /\ \E k \in 1..Len(parts) : parts[k] # ""
    THEN [ok |-> TRUE, neg |-> neg,
          mag |-> FloatOf(NatVal(parts[1] \o Fraction(parts)), 10 ^ Len(Fraction(parts)))]
    ELSE NoFloat

Unsigned(s) == IF s # "" /\ Char(s, 1) \in {"-", "+"} THEN SubSeq(s, 2, Len(s)) ELSE s

FloatOfStripped(s) == FloatOfParts(s # "" /\ Char(s, 1) = "-", SplitOn(Unsigned(s), "."))

\* float(s): optional sign, digits with an optional fraction; anything else
\* raises ValueError (ok = FALSE).  The value is kept as sign and magnitude.
ParseFloat(s) == FloatOfStripped(Strip(s))

NoDate == [y |-> 0, m |-> 0, d |-> 0]

IsLeap(y) == (y % 4 = 0 /\ y % 100 # 0) \/ y % 400 = 0

DaysInMonth(y, m) ==
    IF m = 2 THEN (IF IsLeap(y) THEN 29 ELSE 28)
    ELSE IF m \in {4, 6, 9, 11} THEN 30 ELSE 31

\* the datetime constructor: ValueError (NoDate) for a date that does not exist
MakeDate(y, m, d) ==
    IF y >= 1 /\ m \in 1..12 /\ d >= 1 /\ d <= DaysInMonth(y, m)
    THEN [y |-> y, m |-> m, d |-> d]
    ELSE NoDate

\* the directives of strptime: %Y is four digits, %m and %d one or two digits
\* that are not zero, %H, %M and %S one or two digits
IsYear(s) == Len(s) = 4 /\ AllDigits(s)
IsMonthOrDay(s, hi) == Len(s) \in 1..2 /\ AllDigits(s) /\ NatVal(s) \in 1..hi
IsClock(s, hi) == Len(s) \in 1..2 /\ AllDigits(s) /\ NatVal(s) \in 0..hi

MonthNames == <<"jan", "feb", "mar", "apr", "may", "jun",
                "jul", "aug", "sep", "oct", "nov", "dec">>

MonthIndex(s) == {i \in 1..12 : MonthNames[i] = s}

IsMonthName(s) == MonthIndex(Lower(s)) # {}
MonthNumber(s) == Min(MonthIndex(Lower(s)))

\* the date of the fields year, month, day of a date string
DateOfFields(p, y, m, d) ==
    IF Len(p) = 3 /\ IsYear(p[y]) /\ IsMonthOrDay(p[m], 12) /\ IsMonthOrDay(p[d], 31)
    THEN MakeDate(NatVal(p[y]), NatVal(p[m]), NatVal(p[d]))
    ELSE NoDate

\* strptime(s, '%Y-%m-%d')
StrptimeYmd(s) == DateOfFields(SplitOn(s, "-"), 1, 2, 3)

\* strptime(s, '%d/%m/%Y')
StrptimeDmy(s) == DateOfFields(SplitOn(s, "/"), 3, 2, 1)

IsTime(t) == Len(t) = 3 /\ IsClock(t[1], 23) /\ IsClock(t[2], 59) /\ IsClock(t[3], 61)

DateAndTime(p) == IF Len(p) = 2 /\ IsTime(SplitOn(p[2], ":")) THEN StrptimeYmd(p[1]) ELSE NoDate

\* strptime(s, '%Y-%m-%dT%H:%M:%S')
StrptimeYmdHms(s) == DateAndTime(SplitOn(s, "T"))

DateOfWords(p) ==
    IF Len(p) = 3 /\ IsMonthOrDay(p[1], 31) /\ IsMonthName(p[2]) /\ IsYear(p[3])
    THEN MakeDate(NatVal(p[3]), MonthNumber(p[2]), NatVal(p[1]))
    ELSE NoDate

\* strptime(s, '%d %b %Y'): whitespace in the format stands for \s+, and %b
\* for an abbreviated month name only
StrptimeDbY(s) ==
    IF s # "" /\ ~IsSpace(Char(s, 1)) /\ ~IsSpace(Char(s, Len(s)))
    THEN DateOfWords(SplitWords(s))
    ELSE NoDate

\* HH:MM or HH:MM:SS, every field at its full width
IsIsoTime(t) ==
    /\ Len(t) \in 2..3
    /\ \A i \in 1..Len(t) : Len(t[i]) = 2 /\ AllDigits(t[i])
    /\ NatVal(t[1]) <= 23 /\ NatVal(t[2]) <= 59
    /\ Len(t) = 3 => NatVal(t[3]) <= 59

\* datetime.fromisoformat(s): YYYY-MM-DD, alone or followed by one separator
\* character and HH:MM or HH:MM:SS, every field at its full width
FromIsoFormat(s) ==
    IF /\ Len(s) >= 10
       /\ Char(s, 5) = "-" /\ Char(s, 8) = "-"
       /\ \A f \in {<<1, 4>>, <<6, 7>>, <<9, 10>>} : AllDigits(SubSeq(s, f[1], f[2]))
       /\ Len(s) = 10 \/ (Len(s) > 11 /\ IsIsoTime(SplitOn(SubSeq(s, 12, Len(s)), ":")))
    THEN MakeDate(NatVal(SubSeq(s, 1, 4)), NatVal(SubSeq(s, 6, 7)), NatVal(SubSeq(s, 9, 10)))
    ELSE NoDate

\* the first date of a sequence that is a date; NoDate when none is
FirstDate(dates) ==
    IF \A k \in 1..Len(dates) : dates[k] = NoDate THEN NoDate
    ELSE dates[Min({k \in 1..Len(dates) : dates[k] # NoDate})]

\* a decimal padded with zeros to width w
RECURSIVE ZeroPad(_, _)
ZeroPad(s, w) == IF Len(s) >= w THEN s ELSE ZeroPad("0" \o s, w)

\* dt.strftime('%Y-%m') with the C library of the Lambda runtime (glibc), whose
\* %Y does not pad the year
MonthKey(dt) == NatStr(dt.y) \o "-" \o ZeroPad(NatStr(dt.m), 2)

\* dt.date().isoformat()
IsoDate(dt) ==
    ZeroPad(NatStr(dt.y), 4) \o "-" \o ZeroPad(NatStr(dt.m), 2) \o "-" \o ZeroPad(NatStr(dt.d), 2)

\* ------------------------------------------------------------------------
\* The regular expressions of the handler's free-text branch.  A match that
\* starts at i is <<last index of the match, first and last index of group
\* 1>>; NoMatch when the pattern does not match at i (no pattern matches the
\* empty string).
\* ------------------------------------------------------------------------

NoMatch == <<0, 0, 0>>

\* the last index of the longest run of characters of chars that starts at i
\* (i - 1 when s[i] is not one of them)
RunEnd(chars, s, i) ==
    Max({i - 1} \cup {j \in i..Len(s) : \A k \in i..j : Char(s, k) \in chars})

\* 202[0-9] at i
Year202At(s, i) == StartsWithAt(s, i, "202") /\ i + 3 <= Len(s) /\ IsDigit(Char(s, i + 3))

\* the match of a date pattern that ends at e
DateMatch(i, e) == IF e = 0 THEN NoMatch ELSE <<e, i, e>>

\* \d{1,2}\s+(?:Jan|...|Dec)[a-z]*\s+202[0-9], re.IGNORECASE
DateNameEnd(s, i) ==
    LET d == RunEnd(Digits, s, i)
        w == RunEnd(Spaces, s, d + 1)
        a == RunEnd(Alphas, s, w + 1)
        v == RunEnd(Spaces, s, a + 1)
    IN  IF /\ d - i + 1 \in 1..2
           /\ w > d
           /\ a >= w + 3 /\ IsMonthName(SubSeq(s, w + 1, w + 3))
           /\ v > a
           /\ Year202At(s, v + 1)
        THEN v + 4 ELSE 0

\* \d{1,2}/\d{1,2}/202[0-9]
DateSlashEnd(s, i) ==
    LET d == RunEnd(Digits, s, i)
        e == RunEnd(Digits, s, d + 2)
    IN  IF /\ d - i + 1 \in 1..2
           /\ d + 1 <= Len(s) /\ Char(s, d + 1) = "/"
           /\ e - (d + 2) + 1 \in 1..2
           /\ e + 1 <= Len(s) /\ Char(s, e + 1) = "/"
           /\ Year202At(s, e + 2)
        THEN e + 5 ELSE 0

\* 202[0-9]-\d{2}-\d{2}
DateIsoEnd(s, i) ==
    IF /\ i + 9 <= Len(s)
       /\ Year202At(s, i)
       /\ Char(s, i + 4) = "-" /\ Char(s, i + 7) = "-"
       /\ \A k \in {5, 6, 8, 9} : IsDigit(Char(s, i + k))
    THEN i + 9 ELSE 0

\* the last index of the digits and two decimals whose digits end at d, or 0
DecimalsEnd(s, d, marks) ==
    IF /\ d + 3 <= Len(s)
       /\ Char(s, d + 1) \in marks
       /\ IsDigit(Char(s, d + 2)) /\ IsDigit(Char(s, d + 3))
    THEN d + 3 ELSE 0

\* \d+[.,]\d{2} at i: the last index, or 0
NumberEnd(s, i) ==
    IF RunEnd(Digits, s, i) < i THEN 0 ELSE DecimalsEnd(s, RunEnd(Digits, s, i), {".", ","})

\* the index after an optional "-" at i
SkipMinus(s, i) == IF i <= Len(s) /\ Char(s, i) = "-" THEN i + 1 ELSE i

\* the match whose group is the number at n and that ends with the number
NumberMatch(n, e) == IF e = 0 THEN NoMatch ELSE <<e, n, e>>

\* the number after the euro sign at e
AfterEuro(s, e, n) ==
    IF e <= Len(s) /\ Char(s, e) = "€" THEN NumberMatch(n, NumberEnd(s, n)) ELSE NoMatch

\* -?€\s*(\d+[.,]\d{2})
AmountEuroFirst(s, i) ==
    AfterEuro(s, SkipMinus(s, i), RunEnd(Spaces, s, SkipMinus(s, i) + 1) + 1)

NumberAt(s, n) == NumberMatch(n, NumberEnd(s, n))

\* -?\s*(\d+[.,]\d{2})
AmountBare(s, i) == NumberAt(s, RunEnd(Spaces, s, SkipMinus(s, i)) + 1)

\* the match m of a number, extended over the euro sign at e
BeforeEuro(s, m, e) ==
    IF m # NoMatch /\ e <= Len(s) /\ Char(s, e) = "€" THEN <<e, m[2], m[3]>> ELSE NoMatch

EuroAfter(s, m) == BeforeEuro(s, m, RunEnd(Spaces, s, m[1] + 1) + 1)

\* -?\s*(\d+[.,]\d{2})\s*€
AmountEuroLast(s, i) == EuroAfter(s, AmountBare(s, i))

date_patterns == <<"name", "slash", "iso">>
amount_patterns == <<"euro_first", "euro_last", "bare">>

\* the match of pattern that starts at i
Match(pattern, s, i) ==
    CASE pattern = "name"       -> DateMatch(i, DateNameEnd(s, i))
      [] pattern = "slash"      -> DateMatch(i, DateSlashEnd(s, i))
      [] pattern = "iso"        -> DateMatch(i, DateIsoEnd(s, i))
      [] pattern = "euro_first" -> AmountEuroFirst(s, i)
      [] pattern = "euro_last"  -> AmountEuroLast(s, i)
      [] pattern = "bare"       -> AmountBare(s, i)

MatchEnd(pattern, s, i) == Match(pattern, s, i)[1]

\* re.search(pattern, s): the start of the leftmost match, or 0
Search(pattern, s) == First({i \in 1..Len(s) : MatchEnd(pattern, s, i) > 0})

GroupOf(s, m) == SubSeq(s, m[2], m[3])

GroupAt(pattern, s, i) == IF i = 0 THEN "" ELSE GroupOf(s, Match(pattern, s, i))

\* m.group(1) of re.search(pattern, s); "" when there is no match (a group
\* of these patterns is never empty)
SearchGroup(pattern, s) == GroupAt(pattern, s, Search(pattern, s))

\* re.sub(pattern, '', s): s without the matches, found left to right
RECURSIVE SubFrom(_, _, _)
\* j is the start of the leftmost match at or after i, 0 when there is none
SubStep(pattern, s, i, j) ==
    IF j = 0 THEN SubSeq(s, i, Len(s))
    ELSE SubSeq(s, i, j - 1) \o SubFrom(pattern, s, MatchEnd(pattern, s, j) + 1)

SubFrom(pattern, s, i) ==
    IF i > Len(s) THEN ""
    ELSE SubStep(pattern, s, i, First({j \in i..Len(s) : MatchEnd(pattern, s, j) > 0}))

ReSub(pattern, s) == SubFrom(pattern, s, 1)

\* re.sub of each pattern in turn
RECURSIVE ReSubAll(_, _)
ReSubAll(patterns, s) ==
    IF patterns = <<>> THEN s ELSE ReSubAll(Tail(patterns), ReSub(Head(patterns), s))

\* re.sub(r'\s+', ' ', s)
RECURSIVE CollapseFrom(_, _)
CollapseFrom(s, i) ==
    IF i > Len(s) THEN ""
    ELSE LET j == First({k \in i..Len(s) : IsSpace(Char(s, k))}) IN
         IF j = 0 THEN SubSeq(s, i, Len(s))
         ELSE SubSeq(s, i, j - 1) \o " " \o CollapseFrom(s, RunEnd(Spaces, s, j) + 1)

CollapseSpaces(s) == CollapseFrom(s, 1)

\* str.replace(',', '.')
RECURSIVE CommaToDot(_)
CommaToDot(s) ==
    IF Len(s) <= 1 THEN (IF s = "," THEN "." ELSE s)
    ELSE CommaToDot(SubSeq(s, 1, Len(s) \div 2))
             \o CommaToDot(SubSeq(s, Len(s) \div 2 + 1, Len(s)))

\* ------------------------------------------------------------------------
\* parse_transactions of the handler
\* ------------------------------------------------------------------------

HeaderKeywords == {"date", "description", "amount", "balance", "transaction"}

\* a pure header line: a header keyword and no digit
IsHeaderLine(line) ==
    /\ AnyWord(Lower(line), HeaderKeywords)
    /\ ~\E i \in 1..Len(line) : IsDigit(Char(line, i))

Stripped(parts) == [i \in 1..Len(parts) |-> Strip(parts[i])]

\* the date of a CSV line: the strptime formats in order, then fromisoformat
CsvDate(date_str) ==
    FirstDate(<<StrptimeYmd(date_str), StrptimeDmy(date_str), StrptimeYmdHms(date_str),
                FromIsoFormat(date_str)>>)

\* strptime with the format that goes with a date pattern
Strptime(pattern, date_str) ==
    CASE pattern = "name"  -> StrptimeDbY(date_str)
      [] pattern = "slash" -> StrptimeDmy(date_str)
      [] pattern = "iso"   -> StrptimeYmd(date_str)

\* the date of the text a date pattern found
DateFrom(pattern, date_str) == IF date_str = "" THEN NoDate ELSE Strptime(pattern, date_str)

\* the date of a free-text line: the first pattern that matches and parses
FreeTextDate(line) ==
    FirstDate([k \in 1..Len(date_patterns) |->
                  DateFrom(date_patterns[k], SearchGroup(date_patterns[k], line))])

\* the first string of a sequence that is not empty; "" when none is
FirstGroup(groups) ==
    IF \A k \in 1..Len(groups) : groups[k] = "" THEN ""
    ELSE groups[Min({k \in 1..Len(groups) : groups[k] # ""})]

AmountFrom(amt_str) == IF amt_str = "" THEN NoFloat ELSE ParseFloat(CommaToDot(amt_str))

\* the amount of a free-text line: the first pattern that matches
FreeTextAmount(line) ==
    AmountFrom(FirstGroup([k \in 1..Len(amount_patterns) |->
                              SearchGroup(amount_patterns[k], line)]))

DescriptionOr(desc) == IF Len(desc) < 2 THEN "Transaction" ELSE desc

\* the line without its dates and amounts, whitespace collapsed
FreeTextDescription(line) ==
    DescriptionOr(Strip(CollapseSpaces(ReSubAll(date_patterns \o amount_patterns, line))))

DescriptionLimit == 100

Transaction(dt, desc, amount) ==
    [date |-> IsoDate(dt), month |-> MonthKey(dt),
     description |-> desc, gross_amount |-> Round2(amount.mag)]

CsvTransaction(amount, dt, desc) ==
    IF ~amount.ok \/ dt = NoDate THEN <<>>
    ELSE <<Transaction(dt, IF desc = "" THEN "Transaction" ELSE desc, amount)>>

\* FORMAT 1: the transaction of a line with at least three comma-separated
\* fields; nothing when the amount or the date does not parse
ParseCsvLine(parts) == CsvTransaction(ParseFloat(parts[3]), CsvDate(parts[1]), parts[2])

FreeTextTransaction(dt, amount, desc) ==
    IF dt = NoDate \/ ~amount.ok THEN <<>>
    ELSE <<Transaction(dt, Truncate(desc, DescriptionLimit), amount)>>

\* FORMATS 2/3/4
ParseFreeTextLine(line) ==
    FreeTextTransaction(FreeTextDate(line), FreeTextAmount(line), FreeTextDescription(line))

ParseFields(line, parts) ==
    IF Contains(line, ",") /\ Len(parts) >= 3 THEN ParseCsvLine(parts)
    ELSE ParseFreeTextLine(line)

ParseStripped(line) ==
    IF line = "" \/ StartsWithAt(line, 1, "#") THEN <<>>
    ELSE IF IsHeaderLine(line) THEN <<>>
    ELSE ParseFields(line, Stripped(SplitOn(line, ",")))

\* one turn of the loop over the lines: the transactions (none or one) that
\* raw_line adds
ParseLine(raw_line) == ParseStripped(Strip(raw_line))

\* content is the sequence content.splitlines()
RECURSIVE parse_transactions(_)
parse_transactions(content) ==
    IF content = <<>> THEN <<>>
    ELSE ParseLine(Head(content)) \o parse_transactions(Tail(content))

\* ------------------------------------------------------------------------
\* parse_transactions of the worker
\* ------------------------------------------------------------------------

DigitsThenDecimals(s, n) ==
    IF RunEnd(Digits, s, n) < n THEN 0 ELSE DecimalsEnd(s, RunEnd(Digits, s, n), {"."})

\* [-]?\d+\.\d{2} at i: the last index, or 0
SignedNumberEnd(s, i) == DigitsThenDecimals(s, SkipMinus(s, i))

ThreeWordChars(s, d, w) ==
    IF w > d /\ w + 3 <= Len(s) /\ \A k \in (w + 1)..(w + 3) : IsWord(Char(s, k))
    THEN w + 3 ELSE 0

SpacesThenWord(s, i, d) ==
    IF d - i + 1 \in 1..2 THEN ThreeWordChars(s, d, RunEnd(Spaces, s, d + 1)) ELSE 0

\* (\d{1,2}\s+\w{3}) at i: the last index, or 0
DayMonthEnd(s, i) == SpacesThenWord(s, i, RunEnd(Digits, s, i))

\* the index after the whitespace that follows b
AfterSpaces(s, b) == RunEnd(Spaces, s, b + 1) + 1

\* the ways to go on after group 1 ended at g1
MatchesAfter(s, g1) ==
    IF g1 = 0 THEN {}
    ELSE {<<p[1], p[2], AfterSpaces(s, p[2])>> :
              p \in {q \in ((g1 + 2)..AfterSpaces(s, g1)) \X ((g1 + 2)..Len(s)) :
                        /\ q[1] <= q[2]
                        /\ AfterSpaces(s, q[2]) > q[2] + 1
                        /\ SignedNumberEnd(s, AfterSpaces(s, q[2])) > 0}}

\* (\d{1,2}\s+\w{3})\s+(.+?)\s+([-]?\d+\.\d{2}) at i: the ways to match, each
\* <<first of group 2, last of group 2, first of group 3>>.  \s+ before the
\* group is greedy and .+? is lazy.
LineMatches(s, i) == MatchesAfter(s, DayMonthEnd(s, i))

\* the match the regex engine reports: latest start of group 2, then its
\* earliest end
Preferred(ms) ==
    LET a == Max({m[1] : m \in ms})
        b == Min({m[2] : m \in {n \in ms : n[1] = a}})
    IN  CHOOSE m \in ms : m[1] = a /\ m[2] = b

FirstMatch(s, i) == Preferred(LineMatches(s, i))

\* the transaction of a match, when its amount is a debit
Debit(date_str, description, amount) ==
    IF amount.neg /\ amount.mag > 0
    THEN <<[date |-> date_str, description |-> Strip(description),
            amount |-> amount.mag, category |-> categorize(description)]>>
    ELSE <<>>

MatchGroups(line, date_str, m) ==
    Debit(date_str, SubSeq(line, m[1], m[2]),
          ParseFloat(SubSeq(line, m[3], SignedNumberEnd(line, m[3]))))

MatchAt(line, i) ==
    IF i = 0 THEN <<>>
    ELSE MatchGroups(line, SubSeq(line, i, DayMonthEnd(line, i)), FirstMatch(line, i))

\* one turn of the worker's loop over the lines
WorkerParseLine(line) ==
    MatchAt(line, First({i \in 1..Len(line) : LineMatches(line, i) # {}}))

\* lines is the sequence text.split('\n')
RECURSIVE worker_parse_transactions(_)
worker_parse_transactions(lines) ==
    IF lines = <<>> THEN <<>>
    ELSE WorkerParseLine(Head(lines)) \o worker_parse_transactions(Tail(lines))

\* ------------------------------------------------------------------------
\* Dicts: a function on the keys; where the code walks a dict, the order of
\* its keys (insertion order) is kept beside it as a sequence
\* ------------------------------------------------------------------------

EmptyDict == [k \in {} |-> 0]

Put(d, k, v) == [x \in DOMAIN d \cup {k} |-> IF x = k THEN v ELSE d[x]]

Get(d, k, default) == IF k \in DOMAIN d THEN d[k] ELSE default

\* list(d.keys()) after d[k] is set
KeysAfterPut(keys, d, k) == IF k \in DOMAIN d THEN keys ELSE Append(keys, k)

\* ------------------------------------------------------------------------
\* Tax decomposition (invoice_tax_pkg.TaxCalculator)
\* ------------------------------------------------------------------------

\* VAT rates in percent of the net amount, per supported country
VatRates == [IE |-> 23, DE |-> 19]

\* extract_vat(gross, country_code): (vat, net) with vat + net = gross to the
\* cent; raises (ok = FALSE) for a country the calculator does not know
extract_vat(gross, country_code) ==
    IF country_code \notin DOMAIN VatRates THEN [ok |-> FALSE, vat |-> 0, net |-> 0]
    ELSE LET g == NearestCent(gross)
             n == RoundHalfEven(g * 100, 100 + VatRates[country_code])
         IN  [ok |-> TRUE, vat |-> FloatOf(g - n, 100), net |-> FloatOf(n, 100)]

\* ------------------------------------------------------------------------
\* The aggregation fold (handle_bank_analyze and calculate_analysis run the
\* same loop body over their transactions)
\* ------------------------------------------------------------------------

NewMonth == [net_total |-> 0, vat_total |-> 0, gross_total |-> 0, by_category |-> EmptyDict]
NewCategory == [net |-> 0, vat |-> 0, gross |-> 0, count |-> 0, by_month |-> EmptyDict]
NewCategoryMonth == [net |-> 0, vat |-> 0, gross |-> 0, count |-> 0]

\* monthly[m] after a transaction of category c
AddToMonth(m_data, c, net, vat, gross) ==
    [net_total   |-> FAdd(m_data.net_total, net),
     vat_total   |-> FAdd(m_data.vat_total, vat),
     gross_total |-> FAdd(m_data.gross_total, gross),
     by_category |-> Put(m_data.by_category, c, FAdd(Get(m_data.by_category, c, 0), gross))]

AddToCategoryMonth(b, net, vat, gross) ==
    [net |-> FAdd(b.net, net), vat |-> FAdd(b.vat, vat),
     gross |-> FAdd(b.gross, gross), count |-> b.count + 1]

\* a category's entry that adds the net amount where the gross amount belongs
AddToCategory_net(c_data, m, net, vat, gross) ==
    [net   |-> FAdd(c_data.net, net),
     vat   |-> FAdd(c_data.vat, vat),
     gross |-> FAdd(c_data.gross, net),
     count |-> c_data.count + 1,
     by_month |-> Put(c_data.by_month, m,
                      AddToCategoryMonth(Get(c_data.by_month, m, NewCategoryMonth),
                                         net, vat, gross))]

\* by_category[c] after a transaction of month m
AddToCategory(c_data, m, net, vat, gross) ==
    [net   |-> FAdd(c_data.net, net),
     vat   |-> FAdd(c_data.vat, vat),
     gross |-> FAdd(c_data.gross, gross),
     count |-> c_data.count + 1,
     by_month |-> Put(c_data.by_month, m,
                      AddToCategoryMonth(Get(c_data.by_month, m, NewCategoryMonth),
                                         net, vat, gross))]

\* the loop over the transactions tx = [month, category, net, vat, gross]
RECURSIVE Fold(_, _)
Fold(acc, txs) ==
    IF txs = <<>> THEN acc
    ELSE LET t == Head(txs) IN
         Fold([monthly |-> Put(acc.monthly, t.month,
                               AddToMonth(Get(acc.monthly, t.month, NewMonth),
                                          t.category, t.net, t.vat, t.gross)),
               monthly_keys |-> KeysAfterPut(acc.monthly_keys, acc.monthly, t.month),
               by_category |-> Put(acc.by_category, t.category,
                                   AddToCategory(Get(acc.by_category, t.category, NewCategory),
                                                 t.month, t.net, t.vat, t.gross))],
              Tail(txs))

Aggregate(txs) ==
    Fold([monthly |-> EmptyDict, monthly_keys |-> <<>>, by_category |-> EmptyDict], txs)

\* ------------------------------------------------------------------------
\* handle_bank_analyze
\* ------------------------------------------------------------------------

Enriched(t, country_code, v) ==
    IF ~v.ok THEN <<>>
    ELSE <<[date |-> t.date, month |-> t.month, description |-> t.description,
            category |-> categorize_expense(t.description),
            net_amount |-> Round2(v.net), vat_amount |-> Round2(v.vat),
            total_amount |-> Round2(t.gross_amount), country_code |-> country_code]>>

\* the enriched transaction of t; none when extract_vat raises
Enrich(t, country_code) == Enriched(t, country_code, extract_vat(t.gross_amount, country_code))

RECURSIVE EnrichAll(_, _)
EnrichAll(transactions, country_code) ==
    IF transactions = <<>> THEN <<>>
    ELSE Enrich(Head(transactions), country_code) \o EnrichAll(Tail(transactions), country_code)

FoldInput(e_tx) ==
    [month |-> e_tx.month, category |-> e_tx.category, net |-> e_tx.net_amount,
     vat |-> e_tx.vat_amount, gross |-> e_tx.total_amount]

\* the loop over monthly.values() after the fold
RoundMonthly(monthly) ==
    [m \in DOMAIN monthly |->
        [monthly[m] EXCEPT !.net_total = Round2(@), !.vat_total = Round2(@),
                           !.gross_total = Round2(@)]]

\* the loop over by_category.values() after the fold
RoundCategories(by_category) ==
    [c \in DOMAIN by_category |->
        [by_category[c] EXCEPT !.net = Round2(@), !.vat = Round2(@), !.gross = Round2(@)]]

\* the summaries after the rounding loops
Finalise(acc) ==
    [monthly_summary |-> RoundMonthly(acc.monthly),
     monthly_keys |-> acc.monthly_keys,
     category_summary |-> RoundCategories(acc.by_category)]

\* the summaries of the enriched transactions
Summaries(enriched) == Finalise(Aggregate([i \in 1..Len(enriched) |-> FoldInput(enriched[i])]))

error_response(message, status_code) ==
    [statusCode |-> status_code, body |-> [error |-> message]]

success_response(data) == [statusCode |-> 200, body |-> data]

EndsWith(s, p) == Len(s) >= Len(p) /\ SubSeq(s, Len(s) - Len(p) + 1, Len(s)) = p

\* extract_text_from_pdf raises when the pages hold no text
PdfHasText(content) == \E i \in 1..Len(content) : Strip(content[i]) # ""

\* event = [key, content, country_code]: content is the text of the object
\* `key` of the bucket, as its lines
\* the result of the analysis
AnalysisResult(country_code, enriched, s) ==
    [country_code |-> country_code,
     transaction_count |-> Len(enriched),
     transactions |-> enriched,
     monthly_summary |-> s.monthly_summary,
     monthly_keys |-> s.monthly_keys,
     category_summary |-> s.category_summary]

\* from the enriched transactions to the response
RespondEnriched(country_code, enriched) ==
    IF enriched = <<>> THEN error_response("Could not process any transactions", 400)
    ELSE success_response(AnalysisResult(country_code, enriched, Summaries(enriched)))

\* from the parsed transactions to the response
RespondParsed(country_code, transactions) ==
    IF transactions = <<>> THEN error_response("No valid transactions found in statement", 400)
    ELSE RespondEnriched(country_code, EnrichAll(transactions, country_code))

handle_bank_analyze(event) ==
    IF Strip(event.key) = "" THEN error_response("bucket and key are required", 400)
    ELSE IF EndsWith(Lower(Strip(event.key)), ".pdf") /\ ~PdfHasText(event.content)
    THEN error_response("PDF extraction failed", 500)
    ELSE RespondParsed(Upper(event.country_code), parse_transactions(event.content))

\* ------------------------------------------------------------------------
\* analyze_pdf and calculate_analysis of the worker
\* ------------------------------------------------------------------------

WorkerAmounts(tx, v) ==
    [month |-> SplitWords(tx.date)[2], category |-> tx.category,
     net |-> v.net, vat |-> v.vat, gross |-> tx.amount, ok |-> v.ok]

\* the amounts of a transaction; ok = FALSE when extract_vat raises
WorkerFoldInput(tx, country_code) == WorkerAmounts(tx, extract_vat(tx.amount, country_code))

\* the analysis of the folded transactions
WorkerAnalysis(n, country_code, acc) ==
    [ok |-> TRUE,
     transaction_count |-> n,
     country_code |-> country_code,
     mode |-> "standard",
     monthly_summary |-> acc.monthly,
     monthly_keys |-> acc.monthly_keys,
     category_summary |-> acc.by_category]

AnalysisOfInputs(inputs, country_code) ==
    IF \E i \in 1..Len(inputs) : ~inputs[i].ok THEN [ok |-> FALSE]
    ELSE WorkerAnalysis(Len(inputs), country_code, Aggregate(inputs))

\* raises (ok = FALSE) when extract_vat raises for a transaction
calculate_analysis(transactions, country_code) ==
    AnalysisOfInputs([i \in 1..Len(transactions) |->
                         WorkerFoldInput(transactions[i], country_code)], country_code)

AnalysisOfTransactions(transactions, country_code) ==
    IF transactions = <<>>
    THEN [ok |-> TRUE,
          transaction_count |-> 0,
          country_code |-> country_code,
          mode |-> "standard",
          monthly_summary |-> EmptyDict,
          monthly_keys |-> <<>>,
          category_summary |-> EmptyDict]
    ELSE calculate_analysis(transactions, country_code)

\* text is the extracted text of the PDF, as its lines
analyze_pdf(text, country_code) ==
    AnalysisOfTransactions(worker_parse_transactions(text), country_code)

\* ------------------------------------------------------------------------
\* Persistence: fingerprint, items, the user_analyses table
\* ------------------------------------------------------------------------

\* the characters of file names and month keys in code-point order (the order of sorted())
AsciiChars == " -0123456789ABCDEFGHIJKLMNOPQRSTUVWXYZ_abcdefghijklmnopqrstuvwxyz"

Ord(c) == IndexIn(AsciiChars, c)

\* a < b on strings
RECURSIVE StrLess(_, _)
StrLess(a, b) ==
    IF a = "" THEN b # ""
    ELSE IF b = "" THEN FALSE
    ELSE IF Char(a, 1) = Char(b, 1) THEN StrLess(SubSeq(a, 2, Len(a)), SubSeq(b, 2, Len(b)))
    ELSE Ord(Char(a, 1)) < Ord(Char(b, 1))

\* sorted(S) of a set of strings
RECURSIVE Sorted(_)
Sorted(S) ==
    IF S = {} THEN <<>>
    ELSE LET m == CHOOSE x \in S : \A y \in S \ {x} : StrLess(x, y)
         IN  <<m>> \o Sorted(S \ {m})

\* sep.join(seq)
RECURSIVE Join(_, _)
Join(seq, sep) ==
    IF seq = <<>> THEN ""
    ELSE IF Len(seq) = 1 THEN seq[1]
    ELSE seq[1] \o sep \o Join(Tail(seq), sep)

\* sum(...) of floats, left to right
RECURSIVE SumFloats(_)
SumFloats(fs) ==
    IF fs = <<>> THEN 0
    ELSE FAdd(SumFloats(SubSeq(fs, 1, Len(fs) - 1)), fs[Len(fs)])

FileNameLimit == 100

\* sum(float(m.get(field, 0)) for m in monthly.values())
Total(monthly, monthly_keys, field) ==
    SumFloats([i \in 1..Len(monthly_keys) |-> monthly[monthly_keys[i]][field]])

\* str(round(total_gross, 2)): the sum over no month is the int 0, not a float
RoundedStr(total_gross, monthly_keys) ==
    IF monthly_keys = <<>> THEN "0" ELSE FloatStr(Round2(total_gross))

\* a fingerprint that leaves the month keys in the order of the dict
Fingerprint_unsorted(file_name, total_gross, num_tx, monthly_keys) ==
    file_name \o "_" \o RoundedStr(total_gross, monthly_keys) \o "_" \o NatStr(num_tx)
              \o "_" \o Join(monthly_keys, ",")

\* f"{file_name}_{round(total_gross, 2)}_{num_tx}_{months_sorted}"
Fingerprint(file_name, total_gross, num_tx, monthly_keys) ==
    file_name \o "_" \o RoundedStr(total_gross, monthly_keys) \o "_" \o NatStr(num_tx)
              \o "_" \o Join(Sorted({monthly_keys[i] : i \in 1..Len(monthly_keys)}), ",")

\* the fingerprint handle_save_analysis computes for a request body
RequestFingerprint(body) ==
    Fingerprint(Truncate(body.file_name, FileNameLimit),
                Total(body.analysis_data.monthly_summary, body.analysis_data.monthly_keys,
                      "gross_total"),
                body.analysis_data.transaction_count,
                body.analysis_data.monthly_keys)

\* the item handle_save_analysis puts
HandlerItem(body, fingerprint, t) ==
    LET a == body.analysis_data IN
    [user_email |-> Strip(body.user_email),
     analysis_id |-> NatStr(t),
     saved_at |-> t,
     file_name |-> Truncate(body.file_name, FileNameLimit),
     fingerprint |-> fingerprint,
     country_code |-> a.country_code,
     total_gross |-> Round2(Total(a.monthly_summary, a.monthly_keys, "gross_total")),
     total_net |-> Round2(Total(a.monthly_summary, a.monthly_keys, "net_total")),
     total_vat |-> Round2(Total(a.monthly_summary, a.monthly_keys, "vat_total")),
     transaction_count |-> a.transaction_count,
     monthly_summary |-> a.monthly_summary,
     category_summary |-> a.category_summary]

\* convert_to_decimal of the worker: every float rounded to 2 decimals
WorkerDecimalMonthly(monthly) ==
    [m \in DOMAIN monthly |->
        [net_total |-> Round2(monthly[m].net_total),
         vat_total |-> Round2(monthly[m].vat_total),
         gross_total |-> Round2(monthly[m].gross_total),
         by_category |-> [c \in DOMAIN monthly[m].by_category |->
                              Round2(monthly[m].by_category[c])]]]

WorkerDecimalCategories(cs) ==
    [c \in DOMAIN cs |->
        [net |-> Round2(cs[c].net), vat |-> Round2(cs[c].vat), gross |-> Round2(cs[c].gross),
         count |-> cs[c].count,
         by_month |-> [m \in DOMAIN cs[c].by_month |->
                           [net |-> Round2(cs[c].by_month[m].net),
                            vat |-> Round2(cs[c].by_month[m].vat),
                            gross |-> Round2(cs[c].by_month[m].gross),
                            count |-> cs[c].by_month[m].count]]]]

\* the item save_analysis_to_dynamo puts
WorkerItem(user_email, file_name, analysis, country_code, t) ==
    [user_email |-> user_email,
     analysis_id |-> NatStr(t),
     saved_at |-> t,
     file_name |-> file_name,
     country_code |-> country_code,
     total_gross |-> Round2(Total(analysis.monthly_summary, analysis.monthly_keys, "gross_total")),
     total_net |-> Round2(Total(analysis.monthly_summary, analysis.monthly_keys, "net_total")),
     total_vat |-> Round2(Total(analysis.monthly_summary, analysis.monthly_keys, "vat_total")),
     transaction_count |-> analysis.transaction_count,
     monthly_summary |-> WorkerDecimalMonthly(analysis.monthly_summary),
     category_summary |-> WorkerDecimalCategories(analysis.category_summary)]

\* a put that is conditional on no item of the user having the fingerprint
PutItem_unlessPresent(table, item) ==
    IF /\ "fingerprint" \in DOMAIN item
       /\ \E i \in table : /\ i.user_email = item.user_email
                            /\ "fingerprint" \in DOMAIN i
                            /\ i.fingerprint = item.fingerprint
    THEN table
    ELSE {i \in table : ~(i.user_email = item.user_email /\ i.analysis_id = item.analysis_id)}
             \cup {item}

\* table.put_item: (user_email, analysis_id) is the key of the table
PutItem(table, item) ==
    {i \in table : ~(i.user_email = item.user_email /\ i.analysis_id = item.analysis_id)}
        \cup {item}

HasFingerprint(item, fingerprint) ==
    "fingerprint" \in DOMAIN item /\ item.fingerprint = fingerprint

\* a query that finds nothing
QueryFingerprint_none(table, user_email, fingerprint) == {}

\* table.query(user_email = ..., FilterExpression fingerprint = :fp)['Items']
QueryFingerprint(table, user_email, fingerprint) ==
    {i \in table : i.user_email = user_email /\ HasFingerprint(i, fingerprint)}

\* Items[0]: the items of a user come in the order of the sort key analysis_id
FirstItem(items) ==
    CHOOSE i \in items : \A j \in items \ {i} : StrLess(i.analysis_id, j.analysis_id)

\* ------------------------------------------------------------------------
\* The inputs of the model
\* ------------------------------------------------------------------------

\* lines of a statement, for the analysis
MaxLines == 3

\* /bank/save-analysis requests started in a behaviour
MaxCalls == 3

\* the latest reading of the clock
MaxClock == 2

\* records of a batch of the queue, and deliveries of a batch
MaxBatch == 2
MaxDeliveries == 2

\* the sequences over S of length at most n
RECURSIVE SeqsUpTo(_, _)
SeqsUpTo(S, n) ==
    IF n = 0 THEN {<<>>}
    ELSE SeqsUpTo(S, n - 1) \cup
         {Append(s, x) : s \in {t \in SeqsUpTo(S, n - 1) : Len(t) = n - 1}, x \in S}

StatementLines ==
    {"2025-11-03,Centra,0.10",
     "3 Nov 2025 Tesco €0.30",
     "05/11/2025 LIDL 0.40",
     "2025-12-01 Uber €0.30",
     "01 Nov 2025 Top-up from card €0.40",
     "Date,Description,Amount"}

Statements == SeqsUpTo(StatementLines, MaxLines)

CountryCodes == {"ie", "xx"}

Users == {"ann@example.com", "bob@example.com"}

ObjectKeys == {"uploads/nov.csv", " "}

\* the /bank/analyze requests
AnalyzeEvents ==
    {[key |-> k, country_code |-> cc, content |-> content] :
        k \in ObjectKeys, cc \in CountryCodes, content \in Statements}

AnalysisOf(content) ==
    handle_bank_analyze([key |-> "s.csv", country_code |-> "IE", content |-> content]).body

\* the /bank/save-analysis request bodies
SaveRequests ==
    {[user_email |-> "ann@example.com ", file_name |-> "nov.pdf",
      content |-> <<"2025-11-03,Centra,0.10", "2025-12-01 Uber €0.30">>],
     [user_email |-> "ann@example.com", file_name |-> "dec.pdf",
      content |-> <<"2025-12-01 Uber €0.30">>],
     [user_email |-> "  ", file_name |-> "nov.pdf",
      content |-> <<"2025-12-01 Uber €0.30">>]}

SaveBodies ==
    {[user_email |-> r.user_email, file_name |-> r.file_name,
      analysis_data |-> AnalysisOf(r.content)] : r \in SaveRequests}

\* the messages of the queue, each with the text of its S3 object
WorkerMessages ==
    {[user_email |-> "ann@example.com", file_name |-> "nov.pdf", country_code |-> "IE",
      text |-> <<"01 Nov Amazon -0.10", "02 Nov Cafe Nero -0.30", "03 Nov Salary 9.00">>],
     [user_email |-> "ann@example.com", file_name |-> "blank.pdf", country_code |-> "IE",
      text |-> <<"Statement of account">>],
     [user_email |-> "bob@example.com", file_name |-> "dec.pdf", country_code |-> "XX",
      text |-> <<"03 Dec Netflix -0.10">>]}

WorkerBatches == SeqsUpTo(WorkerMessages, MaxBatch) \ {<<>>}

\* analyze_pdf on the object of each message
WorkerAnalyses == [m \in WorkerMessages |-> analyze_pdf(m.text, m.country_code)]

\* ------------------------------------------------------------------------
\* State
\* ------------------------------------------------------------------------

VARIABLES
    store,          \* the items of the user_analyses table
    now,            \* the UTC clock, in milliseconds
    save,           \* the handle_save_analysis invocation of each Lambda instance
    worker,         \* the worker's invocation on a batch of the queue
    call,           \* the last call of a function that touches no table
    calls,          \* handle_save_analysis invocations started so far
    query_failed    \* whether a duplicate-check query has raised so far

vars == <<store, now, save, worker, call, calls, query_failed>>

Instances == {1, 2}

NoResponse == [statusCode |-> 0]

IdleSave == [pc |-> "idle", body |-> <<>>, fingerprint |-> "", response |-> NoResponse]

IdleWorker == [status |-> "idle", batch |-> <<>>, index |-> 0, deliveries |-> 0]

NoCall == [fn |-> "none", arg |-> <<>>, done |-> FALSE, ret |-> <<>>]

InitWith(c) ==
    /\ store = {}
    /\ now = 1
    /\ save = [p \in Instances |-> IdleSave]
    /\ worker = IdleWorker
    /\ call = c
    /\ calls = 0
    /\ query_failed = FALSE

Init == InitWith(NoCall)

\* ------------------------------------------------------------------------
\* Actions of the service
\* ------------------------------------------------------------------------

\* time passes
Tick ==
    /\ now < MaxClock
    /\ now' = now + 1
    /\ UNCHANGED <<store, save, worker, call, calls, query_failed>>

DuplicateResponse(existing_item) ==
    success_response([message |-> "This analysis was already saved previously",
                      analysis_id |-> existing_item.analysis_id,
                      saved_at |-> existing_item.saved_at,
                      is_duplicate |-> TRUE])

SavedResponse(item) ==
    success_response([message |-> "Analysis saved successfully",
                      analysis_id |-> item.analysis_id,
                      saved_at |-> item.saved_at,
                      is_duplicate |-> FALSE])

\* a duplicate check whose failing query ends the request with a 500
SaveCheck_fatal(p, body, query_ok) ==
    LET user_email == Strip(body.user_email)
        fingerprint == RequestFingerprint(body)
        existing == IF query_ok THEN QueryFingerprint(store, user_email, fingerprint) ELSE {}
    IN  /\ save[p].pc = "idle"
        /\ calls < MaxCalls
        /\ calls' = calls + 1
        /\ IF user_email = "" \/ body.analysis_data = EmptyDict
           THEN /\ query_ok
                /\ save' = [save EXCEPT ![p] =
                               [pc |-> "idle", body |-> body, fingerprint |-> "",
                                response |-> error_response(
                                    "user_email and analysis_data required", 400)]]
                /\ UNCHANGED query_failed
           ELSE /\ save' = [save EXCEPT ![p] =
                               IF ~query_ok
                               THEN [pc |-> "idle", body |-> body, fingerprint |-> fingerprint,
                                     response |-> error_response("Save failed", 500)]
                               ELSE IF existing # {}
                               THEN [pc |-> "idle", body |-> body, fingerprint |-> fingerprint,
                                     response |-> DuplicateResponse(FirstItem(existing))]
                               ELSE [pc |-> "put", body |-> body, fingerprint |-> fingerprint,
                                     response |-> NoResponse]]
                /\ query_failed' = (query_failed \/ ~query_ok)
        /\ UNCHANGED <<store, now, worker, call>>

\* POST /bank/save-analysis, up to the answer of the duplicate-check query:
\* the request is refused, answered as a duplicate, or goes on to put_item.
\* query_ok = FALSE is the query raising, which the handler only logs.
SaveCheck(p, body, query_ok) ==
    LET user_email == Strip(body.user_email)
        fingerprint == RequestFingerprint(body)
        existing == IF query_ok THEN QueryFingerprint(store, user_email, fingerprint) ELSE {}
    IN  /\ save[p].pc = "idle"
        /\ calls < MaxCalls
        /\ calls' = calls + 1
        /\ IF user_email = "" \/ body.analysis_data = EmptyDict
           THEN /\ query_ok
                /\ save' = [save EXCEPT ![p] =
                               [pc |-> "idle", body |-> body, fingerprint |-> "",
                                response |-> error_response(
                                    "user_email and analysis_data required", 400)]]
                /\ UNCHANGED query_failed
           ELSE /\ save' = [save EXCEPT ![p] =
                               IF existing # {}
                               THEN [pc |-> "idle", body |-> body, fingerprint |-> fingerprint,
                                     response |-> DuplicateResponse(FirstItem(existing))]
                               ELSE [pc |-> "put", body |-> body, fingerprint |-> fingerprint,
                                     response |-> NoResponse]]
                /\ query_failed' = (query_failed \/ ~query_ok)
        /\ UNCHANGED <<store, now, worker, call>>

\* POST /bank/save-analysis, from the reading of the clock to the response
SavePut(p) ==
    LET item == HandlerItem(save[p].body, save[p].fingerprint, now) IN
    /\ save[p].pc = "put"
    /\ store' = PutItem(store, item)
    /\ save' = [save EXCEPT ![p] = [@ EXCEPT !.pc = "idle", !.response = SavedResponse(item)]]
    /\ UNCHANGED <<now, worker, call, calls, query_failed>>

\* the queue hands a batch to the worker
WorkerInvoke(batch) ==
    /\ worker.status = "idle"
    /\ worker' = [status |-> "running", batch |-> batch, index |-> 1, deliveries |-> 1]
    /\ UNCHANGED <<store, now, save, call, calls, query_failed>>

\* a loop body that logs the exception of a record and goes on to the next
ProcessRecord_continue(message, analysis_result) ==
    /\ store' = IF analysis_result.ok
                 THEN PutItem(store, WorkerItem(message.user_email, message.file_name,
                                                analysis_result, message.country_code, now))
                 ELSE store
    /\ worker' = [worker EXCEPT
                     !.index = @ + 1,
                     !.status = IF worker.index = Len(worker.batch)
                                THEN "done" ELSE "running"]

\* one turn of the loop of the worker's lambda_handler: the record is analysed
\* and saved, or the exception of its analysis ends the invocation
ProcessRecord(message, analysis_result) ==
    IF analysis_result.ok
    THEN /\ store' = PutItem(store, WorkerItem(message.user_email, message.file_name,
                                               analysis_result, message.country_code, now))
         /\ worker' = [worker EXCEPT
                          !.index = @ + 1,
                          !.status = IF worker.index = Len(worker.batch)
                                     THEN "done" ELSE "running"]
    ELSE /\ worker' = [worker EXCEPT !.status = "failed"]
         /\ UNCHANGED store

WorkerRecord ==
    /\ worker.status = "running"
    /\ ProcessRecord(worker.batch[worker.index], WorkerAnalyses[worker.batch[worker.index]])
    /\ UNCHANGED <<now, save, call, calls, query_failed>>

\* the queue delivers again the batch whose invocation raised
WorkerRedeliver ==
    /\ worker.status = "failed"
    /\ worker.deliveries < MaxDeliveries
    /\ worker' = [worker EXCEPT !.status = "running", !.index = 1, !.deliveries = @ + 1]
    /\ UNCHANGED <<store, now, save, call, calls, query_failed>>

Next ==
    \/ Tick
    \/ \E p \in Instances, body \in SaveBodies, query_ok \in BOOLEAN : SaveCheck(p, body, query_ok)
    \/ \E p \in Instances : SavePut(p)
    \/ \E batch \in WorkerBatches : WorkerInvoke(batch)
    \/ WorkerRecord
    \/ WorkerRedeliver

Spec == Init /\ [][Next]_vars

\* POST /bank/save-analysis alone: the invocations of handle_save_analysis on
\* the Lambda instances, and the clock
NextSave ==
    \/ Tick
    \/ \E p \in Instances, body \in SaveBodies, query_ok \in BOOLEAN : SaveCheck(p, body, query_ok)
    \/ \E p \in Instances : SavePut(p)

SpecSave == Init /\ [][NextSave]_vars

\* the same when no handle_save_analysis invocation starts while another is
\* under way
NextSequential ==
    \/ Tick
    \/ \E p \in Instances, body \in SaveBodies, query_ok \in BOOLEAN :
           /\ \A q \in Instances : save[q].pc = "idle"
           /\ SaveCheck(p, body, query_ok)
    \/ \E p \in Instances : SavePut(p)

SpecSequential == Init /\ [][NextSequential]_vars

\* the worker alone: the invocations of its lambda_handler on the batches of
\* the queue, and the clock
NextWorker ==
    \/ Tick
    \/ \E batch \in WorkerBatches : WorkerInvoke(batch)
    \/ WorkerRecord
    \/ WorkerRedeliver

SpecWorker == Init /\ [][NextWorker]_vars

\* ------------------------------------------------------------------------
\* The functions on their own: the input of a call is drawn at the start,
\* the one step applies the function to it
\* ------------------------------------------------------------------------

Pending(fn, arg) == [fn |-> fn, arg |-> arg, done |-> FALSE, ret |-> <<>>]

Returned(fn) == call.fn = fn /\ call.done

Apply(fn, ret) ==
    /\ call.fn = fn
    /\ ~call.done
    /\ call' = [call EXCEPT !.done = TRUE, !.ret = ret]
    /\ UNCHANGED <<store, now, save, worker, calls, query_failed>>

\* POST /bank/analyze
InitAnalyze == \E event \in AnalyzeEvents : InitWith(Pending("handle_bank_analyze", event))

HandleBankAnalyze == Apply("handle_bank_analyze", handle_bank_analyze(call.arg))

SpecAnalyze == InitAnalyze /\ [][HandleBankAnalyze]_vars

\* parse_transactions of the handler
MaxParseLines == 2

\* a description of one character more than DescriptionLimit
LongDescription == Repeat("d", DescriptionLimit + 1)

ParseInputLines ==
    {"01 Nov 2025 Top-up from card €5.00",
     "02/11/2025 Credit interest 0.40",
     "2025-11-03,Deposit ATM,2.00",
     "2025-11-04 Money in from Ann €1.50",
     "5 Nov 2025 Transfer in 3.00 €",
     "3 Nov 2025 Tesco €4.20",
     "2025-11-03,Centra,8.51",
     "05/11/2025 LIDL -€2.40",
     "2025-12-01 Uber 7,30",
     "Date,Description,Amount",
     "# November",
     "Opening balance",
     "31 Feb 2025 Spar 1.00",
     "2025-11-03,Centra,€8.51",
     "2025-11-06," \o LongDescription \o ",1.00",
     "7 Nov 2025 " \o LongDescription \o " €1.00"}

ParseInputs == SeqsUpTo(ParseInputLines, MaxParseLines)

InitParse == \E content \in ParseInputs : InitWith(Pending("parse_transactions", content))

ParseTransactions == Apply("parse_transactions", parse_transactions(call.arg))

SpecParse == InitParse /\ [][ParseTransactions]_vars

\* the enrichment loop of handle_bank_analyze and the loop of
\* calculate_analysis, when the calls of extract_vat numbered in `raises`
\* raise an exception
Raised == [ok |-> FALSE, vat |-> 0, net |-> 0]

VatOrRaise(k, raises, gross, country_code) ==
    IF k \in raises THEN Raised ELSE extract_vat(gross, country_code)

\* the loop `for t in transactions` with its try/except, from transaction k on
RECURSIVE EnrichFrom(_, _, _, _)
EnrichFrom(k, transactions, country_code, raises) ==
    IF k > Len(transactions) THEN <<>>
    ELSE Enriched(transactions[k], country_code,
                  VatOrRaise(k, raises, transactions[k].gross_amount, country_code))
         \o EnrichFrom(k + 1, transactions, country_code, raises)

\* handle_bank_analyze from its parsed transactions on
EnrichAndRespond(arg) ==
    RespondEnriched(arg.country_code,
                    EnrichFrom(1, arg.transactions, arg.country_code, arg.raises))

\* calculate_analysis: an exception of extract_vat leaves the loop and the
\* function
CalculateOrRaise(arg) ==
    AnalysisOfInputs([k \in 1..Len(arg.transactions) |->
                         WorkerAmounts(arg.transactions[k],
                                       VatOrRaise(k, arg.raises, arg.transactions[k].amount,
                                                  arg.country_code))],
                     arg.country_code)

WorkerStatementLines ==
    {"01 Nov Amazon -0.10", "02 Nov Cafe Nero -0.30", "03 Nov Salary 9.00",
     "03 Dec Netflix -0.10"}

\* transactions with a country code and the calls of extract_vat that raise
EnrichInputsOf(transactions) ==
    {[transactions |-> transactions, country_code |-> cc, raises |-> r] :
        cc \in {"IE", "XX"}, r \in SUBSET (1..Len(transactions))}

\* the inputs of the handler's loop: the parsed transactions of the statements
HandlerEnrichInputs(statements) ==
    UNION {EnrichInputsOf(parse_transactions(content)) : content \in statements}

\* the inputs of the worker's loop
WorkerEnrichInputs(statements) ==
    UNION {EnrichInputsOf(worker_parse_transactions(text)) : text \in statements}

InitEnrich ==
    \/ \E arg \in HandlerEnrichInputs(Statements) :
           arg.transactions # <<>> /\ InitWith(Pending("enrich", arg))
    \/ \E arg \in WorkerEnrichInputs(SeqsUpTo(WorkerStatementLines, MaxLines)) :
           arg.transactions # <<>> /\ InitWith(Pending("calculate_analysis", arg))

EnrichTransactions == Apply("enrich", EnrichAndRespond(call.arg))

CalculateAnalysis == Apply("calculate_analysis", CalculateOrRaise(call.arg))

NextEnrich == EnrichTransactions \/ CalculateAnalysis

SpecEnrich == InitEnrich /\ [][NextEnrich]_vars

\* categorize_expense
DescriptionWords ==
    {"DUNNES", "Stores", "tesco", "Uber", "netflix", "Cafe", "rent", "Boots",
     "Zara", "bus", "XYZ", "Merchant"}

Descriptions ==
    {""} \cup DescriptionWords \cup {a \o " " \o b : a, b \in DescriptionWords}

InitCategorize == \E d \in Descriptions : InitWith(Pending("categorize_expense", d))

CategorizeExpense == Apply("categorize_expense", categorize_expense(call.arg))

SpecCategorize == InitCategorize /\ [][CategorizeExpense]_vars

\* the fingerprint of handle_save_analysis
MaxMonths == 2

MonthKeys == {"2025-10", "2025-11", "2025-12"}

\* the orders in which a monthly_summary can list its keys
MonthKeyOrders ==
    {ks \in SeqsUpTo(MonthKeys, MaxMonths) : \A i, j \in 1..Len(ks) : i # j => ks[i] # ks[j]}

GrossTotals == {FloatOf(10, 100), FloatOf(30, 100)}

\* a file name of FileNameLimit characters
LongName == Repeat("s", FileNameLimit)

FileNames == {"nov.pdf", LongName \o "-1.pdf", LongName \o "-2.pdf"}

TransactionCounts == {1, 2}

KeysOf(ks) == {ks[i] : i \in 1..Len(ks)}

FingerprintBody(file_name, num_tx, ks, gross) ==
    [user_email |-> "ann@example.com", file_name |-> file_name,
     analysis_data |-> [transaction_count |-> num_tx,
                        monthly_keys |-> ks,
                        monthly_summary |-> [k \in KeysOf(ks) |-> [gross_total |-> gross[k]]]]]

FingerprintBodies ==
    UNION {{FingerprintBody(f, n, ks, gross) : f \in FileNames, n \in TransactionCounts,
                                               gross \in [KeysOf(ks) -> GrossTotals]} :
           ks \in MonthKeyOrders}

InitFingerprint == \E body \in FingerprintBodies : InitWith(Pending("fingerprint", body))

ComputeFingerprint == Apply("fingerprint", RequestFingerprint(call.arg))

SpecFingerprint == InitFingerprint /\ [][ComputeFingerprint]_vars

\* ------------------------------------------------------------------------
\* Properties
\* ------------------------------------------------------------------------

CreditKeywords == {"top-up", "credit", "deposit", "money in", "transfer in"}

IsCreditLine(line) == \E k \in CreditKeywords : Contains(Lower(line), k)

IsDebitLine(line) == ~IsCreditLine(line)

\* C1: parse_transactions returns no transaction for a line that contains an
\* inbound/credit keyword (top-up, credit, deposit, money in, transfer in):
\* the result is the result for the text without those lines.
C1_CreditLinesSkipped ==
    Returned("parse_transactions") =>
        call.ret = parse_transactions(SelectSeq(call.arg, IsDebitLine))

\* the categories in the order C10 declares them
DeclaredOrder ==
    <<"Food & Groceries", "Transport", "Shopping", "Subscriptions", "Snacks & Dining",
      "Bills & Utilities", "Health & Pharmacy">>

KeywordsOf(name) ==
    categories[CHOOSE i \in 1..Len(categories) : categories[i].name = name].keywords

\* the positions in DeclaredOrder of the categories a description matches
MatchedCategories(description) ==
    {i \in 1..Len(DeclaredOrder) :
        \E k \in 1..Len(KeywordsOf(DeclaredOrder[i])) :
            Contains(Lower(description), KeywordsOf(DeclaredOrder[i])[k])}

\* C10: categorize_expense returns the first category in declared order one
\* of whose keywords is a substring of the lower-cased description, and Other
\* when no keyword matches or the description is empty; a description
\* containing "dunnes stores" is Food & Groceries, never Shopping.
C10_FirstCategoryInOrder ==
    Returned("categorize_expense") =>
        /\ [i \in 1..Len(categories) |-> categories[i].name] = DeclaredOrder
        /\ IF call.arg = "" \/ MatchedCategories(call.arg) = {}
           THEN call.ret = "Other"
           ELSE call.ret = DeclaredOrder[Min(MatchedCategories(call.arg))]
        /\ Contains(Lower(call.arg), "dunnes stores") => call.ret = "Food & Groceries"

\* a description with keywords of two categories got the earlier one
C10_Witness ==
    /\ Returned("categorize_expense")
    /\ call.arg = "DUNNES Stores"
    /\ MatchedCategories(call.arg) = {1, 3}
    /\ call.ret = "Food & Groceries"

\* what C6 names as the inputs of the fingerprint of a request
FingerprintInputs(body) ==
    <<Truncate(body.file_name, 100),
      Round2(Total(body.analysis_data.monthly_summary, body.analysis_data.monthly_keys,
                   "gross_total")),
      body.analysis_data.transaction_count,
      KeysOf(body.analysis_data.monthly_keys)>>

DifferOnlyInCount(a, b) ==
    /\ FingerprintInputs(a)[1] = FingerprintInputs(b)[1]
    /\ FingerprintInputs(a)[2] = FingerprintInputs(b)[2]
    /\ FingerprintInputs(a)[3] # FingerprintInputs(b)[3]
    /\ FingerprintInputs(a)[4] = FingerprintInputs(b)[4]

\* C6: the fingerprint of handle_save_analysis is a function of (file_name
\* truncated to 100 characters, total_gross rounded to 2 decimals,
\* transaction_count, set of month keys): requests with the same four give the
\* same string whatever the order of the month keys in monthly_summary, and
\* requests that differ only in transaction_count give different strings.
C6_FingerprintOfItsInputs ==
    Returned("fingerprint") =>
        \A other \in FingerprintBodies :
            /\ FingerprintInputs(other) = FingerprintInputs(call.arg)
                   => RequestFingerprint(other) = call.ret
            /\ DifferOnlyInCount(other, call.arg) => RequestFingerprint(other) # call.ret

\* a request with two months has the fingerprint of the request that lists
\* them in the other order and of the one with the longer file name, and not
\* the fingerprint of the one with another transaction_count
C6_Witness ==
    /\ Returned("fingerprint")
    /\ Len(call.arg.file_name) > FileNameLimit
    /\ \E other \in FingerprintBodies :
           /\ FingerprintInputs(other) = FingerprintInputs(call.arg)
           /\ other.analysis_data.monthly_keys # call.arg.analysis_data.monthly_keys
           /\ other.file_name # call.arg.file_name
           /\ RequestFingerprint(other) = call.ret
    /\ \E other \in FingerprintBodies :
           /\ DifferOnlyInCount(other, call.arg)
           /\ RequestFingerprint(other) # call.ret

\* the exact sum of d[k][field] over the keys of d
RECURSIVE SumField(_, _, _)
SumField(d, keys, field) ==
    IF keys = {} THEN 0
    ELSE LET k == CHOOSE x \in keys : TRUE
         IN  d[k][field] + SumField(d, keys \ {k}, field)

\* the exact sum of total_amount over the transactions
RECURSIVE SumTotalAmount(_)
SumTotalAmount(txs) ==
    IF txs = <<>> THEN 0 ELSE Head(txs).total_amount + SumTotalAmount(Tail(txs))

\* |a - b| <= 0.01
Within001(a, b) == 100 * (IF a >= b THEN a - b ELSE b - a) <= One

Analysed == Returned("handle_bank_analyze") /\ call.ret.statusCode = 200

\* C7: in an analysis of handle_bank_analyze the sum of
\* monthly_summary[m].gross_total over the months, the sum of
\* category_summary[c].gross over the categories and the sum of total_amount
\* over the enriched transactions agree within 0.01, and the sum of
\* category_summary[c].count is transaction_count.
C7_TotalsAgree ==
    Analysed =>
        LET b == call.ret.body
            months == SumField(b.monthly_summary, DOMAIN b.monthly_summary, "gross_total")
            cats == SumField(b.category_summary, DOMAIN b.category_summary, "gross")
            txs == SumTotalAmount(b.transactions)
        IN  /\ b.transactions # <<>>
            /\ Within001(months, cats)
            /\ Within001(cats, txs)
            /\ Within001(months, txs)
            /\ SumField(b.category_summary, DOMAIN b.category_summary, "count")
                   = b.transaction_count

\* an analysis of three transactions over two months and several categories
C7_Witness ==
    /\ Analysed
    /\ call.ret.body.transaction_count = 3
    /\ Cardinality(DOMAIN call.ret.body.monthly_summary) = 2
    /\ Cardinality(DOMAIN call.ret.body.category_summary) >= 2
    /\ \E c \in DOMAIN call.ret.body.category_summary :
           call.ret.body.category_summary[c].count = 2

\* the transactions in the order p
Permuted(txs, p) == [i \in 1..Len(txs) |-> txs[p[i]]]

\* C8: aggregation is order-independent: every permutation of the enriched
\* transactions yields the same monthly_summary and category_summary, nested
\* by_category and by_month entries included.
C8_OrderIndependent ==
    Analysed =>
        \A p \in Permutations(1..Len(call.ret.body.transactions)) :
            LET s == Summaries(Permuted(call.ret.body.transactions, p))
            IN  /\ s.monthly_summary = call.ret.body.monthly_summary
                /\ s.category_summary = call.ret.body.category_summary

\* the messages whose document holds no transaction
EmptyDocuments == {m \in WorkerMessages : worker_parse_transactions(m.text) = <<>>}

\* C2: a document from which zero transactions are extracted ends in an
\* error: no item is written to the store for it.
C2_NoItemForEmptyDocument ==
    \A m \in EmptyDocuments :
        ~\E i \in store : i.user_email = m.user_email /\ i.file_name = m.file_name

\* C5: every item of the store carries a fingerprint, the one computed from
\* its file_name, rounded total_gross, transaction_count and month keys.
C5_EveryItemHasFingerprint ==
    \A i \in store :
        /\ "fingerprint" \in DOMAIN i
        /\ i.fingerprint = Fingerprint(i.file_name, i.total_gross, i.transaction_count,
                                       Sorted(DOMAIN i.monthly_summary))

\* the closed set of category names of C9
ClosedCategories ==
    {"Food & Groceries", "Transport", "Shopping", "Subscriptions", "Snacks & Dining",
     "Bills & Utilities", "Health & Pharmacy", "Other"}

\* C9: every key of category_summary in a persisted analysis belongs to the
\* closed set of category names, whichever component produced the analysis.
C9_ClosedCategorySet ==
    \A i \in store : DOMAIN i.category_summary \subseteq ClosedCategories

SameUserAndFingerprint(i, j) ==
    /\ i.user_email = j.user_email
    /\ "fingerprint" \in DOMAIN i
    /\ "fingerprint" \in DOMAIN j
    /\ i.fingerprint = j.fingerprint

NoTwoItems(table) == \A i, j \in table : SameUserAndFingerprint(i, j) => i = j

ValidRequest(body) == Strip(body.user_email) # "" /\ body.analysis_data # EmptyDict

\* the items the table holds under the user and the fingerprint of the request
StoredFor(table, body) ==
    {i \in table : /\ i.user_email = Strip(body.user_email)
                   /\ "fingerprint" \in DOMAIN i
                   /\ i.fingerprint = RequestFingerprint(body)}

\* the response tells a duplicate, with the analysis_id of an item of `items`
AnsweredDuplicate(response, items) ==
    /\ response.statusCode = 200
    /\ response.body.is_duplicate
    /\ \E i \in items : response.body.analysis_id = i.analysis_id

\* the save of instance p that this step starts finds its fingerprint stored
\* and is answered as a duplicate, the store unchanged
DuplicateLeftAlone(p, body, query_ok) ==
    (SaveCheck(p, body, query_ok) /\ ValidRequest(body) /\ StoredFor(store, body) # {})
        => (AnsweredDuplicate(save'[p].response, StoredFor(store, body)) /\ store' = store)

C4_CheckThenInsert ==
    [][/\ \A p \in Instances, body \in SaveBodies, query_ok \in BOOLEAN :
              (SaveCheck(p, body, query_ok) /\ ValidRequest(body)
                   /\ StoredFor(store, body) = {})
                  => save'[p].pc = "put"
       /\ \A p \in Instances :
              (save[p].pc = "put" /\ save'[p].pc = "idle")
                  => /\ \E i \in StoredFor(store', save[p].body) : i.analysis_id = NatStr(now)
                     /\ save'[p].response.statusCode = 200
                     /\ ~save'[p].response.body.is_duplicate]_vars

\* two saves of one user and fingerprint both passed the check, no query
\* having failed, and the store holds the items of both
C4_Witness ==
    /\ ~query_failed
    /\ \E i, j \in store : i # j /\ SameUserAndFingerprint(i, j)
    /\ \A p \in Instances : save[p].pc = "idle" /\ save[p].response.statusCode = 200
    /\ save[1].fingerprint = save[2].fingerprint

\* a YYYY-MM key: a 4-digit year, a dash, a 2-digit month from 01 to 12
IsYearMonth(k) ==
    /\ Len(k) = 7
    /\ AllDigits(SubSeq(k, 1, 4))
    /\ Char(k, 5) = "-"
    /\ AllDigits(SubSeq(k, 6, 7))
    /\ NatVal(SubSeq(k, 6, 7)) \in 1..12

\* C11: in every analysis, of the handler and of the worker's
\* calculate_analysis, every key of monthly_summary and of each category's
\* by_month map is the YYYY-MM key of a calendar month, so that the same
\* month of different years never shares a bucket.
C11_MonthKeysAreYearMonth ==
    \A i \in store :
        /\ \A m \in DOMAIN i.monthly_summary : IsYearMonth(m)
        /\ \A c \in DOMAIN i.category_summary :
               \A m \in DOMAIN i.category_summary[c].by_month : IsYearMonth(m)

\* C12: every transaction that parse_transactions returns, from a CSV line or
\* from a free-text line, has a description of at most DescriptionLimit
\* characters.
C12_DescriptionAtMostLimit ==
    Returned("parse_transactions") =>
        \A i \in 1..Len(call.ret) : Len(call.ret[i].description) <= DescriptionLimit

\* a currency symbol in front of a number
CurrencySymbols == {"€", "$", "£"}

WithoutCurrency(s) == IF s # "" /\ Char(s, 1) \in CurrencySymbols THEN SubSeq(s, 2, Len(s)) ELSE s

CsvFields(line) == Stripped(SplitOn(Strip(line), ","))

\* a comma-separated line of at least three fields whose field 0 is a date and
\* whose field 2 is a number behind a currency symbol
IsCurrencyCsvLine(line) ==
    /\ Len(CsvFields(line)) >= 3
    /\ CsvDate(CsvFields(line)[1]) # NoDate
    /\ CsvFields(line)[3] # WithoutCurrency(CsvFields(line)[3])
    /\ ParseFloat(WithoutCurrency(CsvFields(line)[3])).ok

\* C14: a CSV line with a parsable date and an amount behind a currency
\* symbol yields a transaction of that date and that gross amount; the line
\* is not dropped.
C14_CurrencyAmountParsed ==
    Returned("parse_transactions") =>
        \A k \in 1..Len(call.arg) :
            IsCurrencyCsvLine(call.arg[k]) =>
                \E i \in 1..Len(call.ret) :
                    /\ call.ret[i].date = IsoDate(CsvDate(CsvFields(call.arg[k])[1]))
                    /\ call.ret[i].gross_amount =
                           Round2(ParseFloat(WithoutCurrency(CsvFields(call.arg[k])[3])).mag)

\* x is a float that round(x, 2) leaves as it is
IsRounded(x) == Round2(x) = x

\* C15: in an analysis every numeric total of every bucket is rounded to two
\* decimals: the totals of each month and of each category, the nested gross
\* subtotal of each category within a month, and the net, vat and gross of
\* each month within a category.
C15_EveryTotalRounded ==
    Analysed =>
        LET monthly == call.ret.body.monthly_summary
            by_category == call.ret.body.category_summary
        IN  /\ \A m \in DOMAIN monthly :
                   /\ IsRounded(monthly[m].net_total)
                   /\ IsRounded(monthly[m].vat_total)
                   /\ IsRounded(monthly[m].gross_total)
                   /\ \A c \in DOMAIN monthly[m].by_category :
                          IsRounded(monthly[m].by_category[c])
            /\ \A c \in DOMAIN by_category :
                   /\ IsRounded(by_category[c].net)
                   /\ IsRounded(by_category[c].vat)
                   /\ IsRounded(by_category[c].gross)
                   /\ \A m \in DOMAIN by_category[c].by_month :
                          /\ IsRounded(by_category[c].by_month[m].net)
                          /\ IsRounded(by_category[c].by_month[m].vat)
                          /\ IsRounded(by_category[c].by_month[m].gross)

\* the positions, in order, of the transactions for which nothing is thrown
KeptPositions(n, Thrown(_)) == SelectSeq([k \in 1..n |-> k], LAMBDA k : ~Thrown(k))

\* the number of kept transactions whose category is c
KeptIn(kept, transactions, c, Category(_)) ==
    Cardinality({i \in 1..Len(kept) : Category(transactions[kept[i]]) = c})

\* the summaries hold the kept transactions and nothing else
BucketsOfKept(kept, transactions, monthly, by_category, Category(_), Month(_)) ==
    /\ DOMAIN by_category = {Category(transactions[kept[i]]) : i \in 1..Len(kept)}
    /\ DOMAIN monthly = {Month(transactions[kept[i]]) : i \in 1..Len(kept)}
    /\ \A c \in DOMAIN by_category :
           by_category[c].count = KeptIn(kept, transactions, c, Category)

HandlerCategory(t) == categorize_expense(t.description)
HandlerMonth(t) == t.month
WorkerCategory(tx) == tx.category
WorkerMonth(tx) == SplitWords(tx.date)[2]

\* the handler's part of C13
C13_Handler ==
    Returned("enrich") =>
        LET arg == call.arg
            Thrown(k) == ~VatOrRaise(k, arg.raises, arg.transactions[k].gross_amount,
                                     arg.country_code).ok
            kept == KeptPositions(Len(arg.transactions), Thrown)
        IN  IF kept = <<>>
            THEN /\ call.ret.statusCode # 200
                 /\ DOMAIN call.ret.body = {"error"}
            ELSE /\ call.ret.statusCode = 200
                 /\ call.ret.body.transaction_count = Len(kept)
                 /\ Len(call.ret.body.transactions) = Len(kept)
                 /\ \A i \in 1..Len(kept) :
                        /\ call.ret.body.transactions[i].date = arg.transactions[kept[i]].date
                        /\ call.ret.body.transactions[i].description
                               = arg.transactions[kept[i]].description
                        /\ call.ret.body.transactions[i].total_amount
                               = Round2(arg.transactions[kept[i]].gross_amount)
                 /\ BucketsOfKept(kept, arg.transactions, call.ret.body.monthly_summary,
                                  call.ret.body.category_summary, HandlerCategory, HandlerMonth)

\* the worker's part of C13
C13_Worker ==
    Returned("calculate_analysis") =>
        LET arg == call.arg
            Thrown(k) == ~VatOrRaise(k, arg.raises, arg.transactions[k].amount,
                                     arg.country_code).ok
            kept == KeptPositions(Len(arg.transactions), Thrown)
        IN  IF kept = <<>>
            THEN ~call.ret.ok
            ELSE /\ call.ret.ok
                 /\ call.ret.transaction_count = Len(kept)
                 /\ BucketsOfKept(kept, arg.transactions, call.ret.monthly_summary,
                                  call.ret.category_summary, WorkerCategory, WorkerMonth)

\* C13: when the tax decomposition throws for one transaction, only that
\* transaction is dropped: the others are enriched in their original order,
\* transaction_count is their number, the dropped transaction is in no bucket
\* of the summaries, and when every transaction is dropped there is an error
\* and no analysis; in handle_bank_analyze and in calculate_analysis.
C13_OnlyThrowingTransactionDropped == C13_Handler /\ C13_Worker

\* C16: a failure of the duplicate-check query of handle_save_analysis is not
\* fatal and does not count as a duplicate: the request goes on to put_item,
\* also when an item of its user_email and fingerprint is stored, and its
\* put_item inserts an item beside the stored one's fingerprint and answers
\* is_duplicate = false.
C16_QueryFailureNotFatal ==
    [][/\ \A p \in Instances, body \in SaveBodies :
              (SaveCheck(p, body, FALSE) /\ ValidRequest(body))
                  => /\ save'[p].pc = "put"
                     /\ save'[p].response = NoResponse
                     /\ store' = store
       /\ \A p \in Instances :
              (save[p].pc = "put" /\ StoredFor(store, save[p].body) # {}
                   /\ save'[p].pc = "idle")
                  => /\ \E i \in StoredFor(store', save[p].body) :
                            /\ i.analysis_id = NatStr(now)
                            /\ i.saved_at = save'[p].response.body.saved_at
                     /\ save'[p].response.statusCode = 200
                     /\ ~save'[p].response.body.is_duplicate
                     /\ save'[p].response.body.analysis_id = NatStr(now)]_vars

\* after a failed duplicate-check query, with no two saves overlapping, a
\* save was answered is_duplicate = false and the store holds two items of
\* its user_email and fingerprint
C16_Witness ==
    /\ query_failed
    /\ \E p \in Instances :
           /\ save[p].pc = "idle"
           /\ save[p].response.statusCode = 200
           /\ ~save[p].response.body.is_duplicate
           /\ Cardinality(StoredFor(store, save[p].body)) = 2

\* the primary key of the user_analyses table
SameKey(i, j) == i.user_email = j.user_email /\ i.analysis_id = j.analysis_id

\* the step adds one item, under a key that no stored item has, and keeps
\* every stored item
AddsFreshItem ==
    /\ store \subseteq store'
    /\ \E i \in store' \ store :
           /\ store' = store \cup {i}
           /\ \A j \in store : ~SameKey(i, j)

\* C18: every save that reaches put_item, of handle_save_analysis or of the
\* worker, adds a new item under a fresh (user_email, analysis_id) key and
\* overwrites no stored item.
C18_EveryPutAddsFreshItem ==
    [][/\ \A p \in Instances : SavePut(p) => AddsFreshItem
       /\ (WorkerRecord /\ worker'.status # "failed") => AddsFreshItem]_vars

\* the record the worker's loop is at
CurrentRecord == worker.batch[worker.index]

\* the item that the save of a message's analysis puts at time t
ItemOfMessage(message, t) ==
    WorkerItem(message.user_email, message.file_name, WorkerAnalyses[message],
               message.country_code, t)

\* the items stored for a message
StoredForMessage(table, message) ==
    {i \in table : i.user_email = message.user_email /\ i.file_name = message.file_name}

\* C17: the worker's lambda_handler takes the records of a batch in order and
\* re-raises at the first record that fails: every record before it has been
\* analysed and put, the failing record and the records after it put nothing
\* and the invocation is over; the save does no duplicate check, so that a
\* redelivery starts again at the first record and puts the analysis of each
\* successful record again, whatever the table holds for its message.
C17_ReRaiseAndRedeliver ==
    [][/\ (worker.status = "running" /\ worker' # worker) =>
              IF WorkerAnalyses[CurrentRecord].ok
              THEN /\ ItemOfMessage(CurrentRecord, now) \in store'
                   /\ \A j \in store : ~SameKey(j, ItemOfMessage(CurrentRecord, now))
                                            => j \in store'
                   /\ worker'.index = worker.index + 1
                   /\ worker'.status = IF worker.index = Len(worker.batch)
                                       THEN "done" ELSE "running"
              ELSE /\ worker'.status = "failed"
                   /\ worker'.index = worker.index
                   /\ store' = store
       /\ worker.status # "running" => store' = store
       /\ worker'.status = "failed" =>
              /\ ~WorkerAnalyses[worker'.batch[worker'.index]].ok
              /\ \A k \in 1..(worker'.index - 1) : WorkerAnalyses[worker'.batch[k]].ok
       /\ (worker.status = "failed" /\ worker' # worker) =>
              /\ worker'.status = "running"
              /\ worker'.index = 1
              /\ worker'.batch = worker.batch
              /\ worker'.deliveries = worker.deliveries + 1]_vars

\* the second delivery of a batch has failed at its second record, and the
\* table holds two items for its first record
C17_Witness ==
    /\ worker.status = "failed"
    /\ worker.deliveries = 2
    /\ worker.index = 2
    /\ Cardinality(StoredForMessage(store, worker.batch[1])) = 2

============================================================================
